---- MODULE Spec2Model ----
(***************************************************************************)
(* Model of the number normaliser: number_to_words (integer -> English     *)
(* words), replace_numbers_in_text (the re.sub pass with its per-token     *)
(* eligibility checks), load_fst_and_normalize (the accelerated path) and  *)
(* normalize_text (the orchestrator).                                      *)
(*                                                                         *)
(* A text is a sequence of characters; a character is a one-character      *)
(* string, except ArabicIndicThree, which stands for U+0663.  Offsets are  *)
(* Python's: the character at offset i of text is text[i + 1].             *)
(***************************************************************************)
EXTENDS Integers, Sequences, FiniteSets, TLC

VARIABLES
  sentence,  \* the argument of normalize_text
  pc,        \* where the call is: "call", "sub", "done", "raised"; "conv_call", "conv_ret"
  path,      \* which convert_fn the running re.sub uses: "none", "fst", "py"
  fst,       \* the transducer taken from the archive: "none", "union", "full"
  pos,       \* re.sub's scan offset into the original text
  out,       \* re.sub's output so far
  subs,      \* one record per call of repl, in call order
  n,         \* the argument of a direct number_to_words call
  cres       \* what that call produced

vars == <<sentence, pc, path, fst, pos, out, subs, n, cres>>

-----------------------------------------------------------------------------
(* Bounds *)

\* longest input text
MaxLen == 4
\* how far past either end of [0, 1000] direct calls of number_to_words go
ArgSlack == 8

-----------------------------------------------------------------------------
(* Characters *)

\* U+0663 ARABIC-INDIC DIGIT THREE: matched by \d, int() reads it as 3
ArabicIndicThree == "U+0663"

AsciiDigits == <<"0", "1", "2", "3", "4", "5", "6", "7", "8", "9">>

Letters ==
  {"a", "b", "c", "d", "e", "f", "g", "h", "i", "j", "k", "l", "m",
   "n", "o", "p", "q", "r", "s", "t", "u", "v", "w", "x", "y", "z"}

\* the characters input texts are drawn from
Alphabet == {"0", "1", "2", "-", " ", "a", "_", ArabicIndicThree}

IsAsciiDigit(c) == \E i \in 1..10 : AsciiDigits[i] = c

\* regex \d on a str pattern: any Unicode decimal digit
IsDigit(c) == IsAsciiDigit(c) \/ c = ArabicIndicThree

\* regex \w on a str pattern: alphanumeric or underscore
IsWord(c) == IsDigit(c) \/ c \in Letters \/ c = "_"

\* str.isspace
IsSpace(c) == c \in {" ", "\t", "\n", "\r"}

DigitValue(c) ==
  IF c = ArabicIndicThree THEN 3
  ELSE (CHOOSE i \in 1..10 : AsciiDigits[i] = c) - 1

\* int(s) on a run of decimal digits
RECURSIVE int_of(_)
int_of(s) ==
  IF s = <<>> THEN 0
  ELSE 10 * int_of(SubSeq(s, 1, Len(s) - 1)) + DigitValue(s[Len(s)])

\* str(n) for n >= 0: ASCII decimal, no leading zeros
RECURSIVE str_of(_)
str_of(k) ==
  IF k < 10 THEN <<AsciiDigits[k + 1]>>
  ELSE str_of(k \div 10) \o <<AsciiDigits[(k % 10) + 1]>>

\* text[a:b]
Slice(text, a, b) == SubSeq(text, a + 1, b)

-----------------------------------------------------------------------------
(* number_to_words *)

MaxNumber == 1000

units ==
  << <<"z", "e", "r", "o">>,
     <<"o", "n", "e">>,
     <<"t", "w", "o">>,
     <<"t", "h", "r", "e", "e">>,
     <<"f", "o", "u", "r">>,
     <<"f", "i", "v", "e">>,
     <<"s", "i", "x">>,
     <<"s", "e", "v", "e", "n">>,
     <<"e", "i", "g", "h", "t">>,
     <<"n", "i", "n", "e">> >>

teens ==
  << <<"t", "e", "n">>,
     <<"e", "l", "e", "v", "e", "n">>,
     <<"t", "w", "e", "l", "v", "e">>,
     <<"t", "h", "i", "r", "t", "e", "e", "n">>,
     <<"f", "o", "u", "r", "t", "e", "e", "n">>,
     <<"f", "i", "f", "t", "e", "e", "n">>,
     <<"s", "i", "x", "t", "e", "e", "n">>,
     <<"s", "e", "v", "e", "n", "t", "e", "e", "n">>,
     <<"e", "i", "g", "h", "t", "e", "e", "n">>,
     <<"n", "i", "n", "e", "t", "e", "e", "n">> >>

tens ==
  << <<>>,
     <<>>,
     <<"t", "w", "e", "n", "t", "y">>,
     <<"t", "h", "i", "r", "t", "y">>,
     <<"f", "o", "r", "t", "y">>,
     <<"f", "i", "f", "t", "y">>,
     <<"s", "i", "x", "t", "y">>,
     <<"s", "e", "v", "e", "n", "t", "y">>,
     <<"e", "i", "g", "h", "t", "y">>,
     <<"n", "i", "n", "e", "t", "y">> >>

OneThousand == <<"o", "n", "e", " ", "t", "h", "o", "u", "s", "a", "n", "d">>

Hundred == <<" ", "h", "u", "n", "d", "r", "e", "d">>

\* a call's outcome: a returned string, or the exception it raised
Ok(w) == [err |-> "none", val |-> w]
Raise(e) == [err |-> e, val |-> <<>>]

\* number_to_words with "and" after the hundreds
RECURSIVE number_to_words_and(_)
number_to_words_and(k) ==
  IF ~(0 <= k /\ k <= MaxNumber) THEN Raise("ValueError")
  ELSE IF k = 1000 THEN Ok(OneThousand)
  ELSE IF k < 10 THEN Ok(units[k + 1])
  ELSE IF 10 <= k /\ k < 20 THEN Ok(teens[(k - 10) + 1])
  ELSE IF k < 100 THEN
    IF k % 10 = 0 THEN Ok(tens[(k \div 10) + 1])
    ELSE Ok(tens[(k \div 10) + 1] \o <<"-">> \o units[(k % 10) + 1])
  ELSE
    IF k % 100 = 0 THEN Ok(units[(k \div 100) + 1] \o Hundred)
    ELSE Ok(units[(k \div 100) + 1] \o Hundred \o <<" ", "a", "n", "d", " ">>
              \o number_to_words_and(k % 100).val)

\* number_to_words whose range check forgets the lower end: Python then
\* indexes units from its end for -10..-1 and raises IndexError below that
RECURSIVE number_to_words_no_lower(_)
number_to_words_no_lower(k) ==
  IF k > MaxNumber THEN Raise("ValueError")
  ELSE IF k < -10 THEN Raise("IndexError")
  ELSE IF k < 0 THEN Ok(units[(10 + k) + 1])
  ELSE IF k = 1000 THEN Ok(OneThousand)
  ELSE IF k < 10 THEN Ok(units[k + 1])
  ELSE IF 10 <= k /\ k < 20 THEN Ok(teens[(k - 10) + 1])
  ELSE IF k < 100 THEN
    IF k % 10 = 0 THEN Ok(tens[(k \div 10) + 1])
    ELSE Ok(tens[(k \div 10) + 1] \o <<"-">> \o units[(k % 10) + 1])
  ELSE
    IF k % 100 = 0 THEN Ok(units[(k \div 100) + 1] \o Hundred)
    ELSE Ok(units[(k \div 100) + 1] \o Hundred \o <<" ">>
              \o number_to_words_no_lower(k % 100).val)

RECURSIVE number_to_words(_)
number_to_words(k) ==
  IF ~(0 <= k /\ k <= MaxNumber) THEN Raise("ValueError")
  ELSE IF k = 1000 THEN Ok(OneThousand)
  ELSE IF k < 10 THEN Ok(units[k + 1])
  ELSE IF 10 <= k /\ k < 20 THEN Ok(teens[(k - 10) + 1])
  ELSE IF k < 100 THEN
    LET t == k \div 10
        u == k % 10
    IN  IF u = 0 THEN Ok(tens[t + 1])
        ELSE Ok(tens[t + 1] \o <<"-">> \o units[u + 1])
  ELSE
    LET h == k \div 100
        rest == k % 100
    IN  IF rest = 0 THEN Ok(units[h + 1] \o Hundred)
        ELSE LET r == number_to_words(rest)
             IN  IF r.err # "none" THEN r
                 ELSE Ok(units[h + 1] \o Hundred \o <<" ">> \o r.val)

-----------------------------------------------------------------------------
(* The accelerated path's transducer *)

\* the keys compile_grammar.py crosses into the archive entry it writes:
\* str(i) for i in 0..99, and "1000"
CompiledKeys == (0..99) \cup {1000}

\* the numbers a transducer has a rewrite for: "union" is the entry
\* compile_grammar.py assembles from a dict of components, "full" a grammar
\* that build_fst returned whole
FstKeys(f) ==
  IF f = "union" THEN CompiledKeys
  ELSE IF f = "full" THEN 0..MaxNumber
  ELSE {}

\* the words the grammar rewrites the numeral of k to (the grammar source
\* is not part of the sources; section 4.1 of the specification defines it)
grammar_words(k) == number_to_words(k).val

\* rewrite.one_top_rewrite(tok, fst), its exception caught: the rewrite when
\* the transducer accepts tok (tok is the key str(k) of some k it holds), the
\* token itself otherwise
apply_fst_to_token(f, tok) ==
  IF int_of(tok) \in FstKeys(f) /\ str_of(int_of(tok)) = tok
  THEN grammar_words(int_of(tok))
  ELSE tok

\* the convert_fn each path hands to replace_numbers_in_text
convert_fn(p, f, k) ==
  IF p = "fst" THEN Ok(apply_fst_to_token(f, str_of(k)))
  ELSE number_to_words(k)

-----------------------------------------------------------------------------
(* replace_numbers_in_text *)

\* \d+ without the \b around it
AlwaysBoundary(text, i) == TRUE

\* regex \b at offset i: exactly one of the characters around it is a \w
WordBoundary(text, i) ==
  (i > 0 /\ IsWord(text[i])) # (i < Len(text) /\ IsWord(text[i + 1]))

\* the offsets at which \b\d+\b can end when it starts at offset i
MatchEnds(text, i) ==
  IF ~WordBoundary(text, i) THEN {}
  ELSE {j \in (i + 1)..Len(text) :
          /\ \A k \in (i + 1)..j : IsDigit(text[k])
          /\ WordBoundary(text, j)}

Max(S) == CHOOSE x \in S : \A y \in S : y <= x
Min(S) == CHOOSE x \in S : \A y \in S : x <= y

\* a search that starts over from the beginning of the text every round
search_from_start(text, p) ==
  LET starts == {i \in 0..Len(text) : MatchEnds(text, i) # {}}
  IN  IF starts = {} THEN [found |-> FALSE, start |-> Len(text), end |-> Len(text)]
      ELSE LET i == Min(starts)
           IN  [found |-> TRUE, start |-> i, end |-> Max(MatchEnds(text, i))]

\* the leftmost match of \b\d+\b at or after offset p, \d+ greedy
search(text, p) ==
  LET starts == {i \in p..Len(text) : MatchEnds(text, i) # {}}
  IN  IF starts = {} THEN [found |-> FALSE, start |-> Len(text), end |-> Len(text)]
      ELSE LET i == Min(starts)
           IN  [found |-> TRUE, start |-> i, end |-> Max(MatchEnds(text, i))]

\* the while loop of repl: the offset it stops at, walking back over spaces
RECURSIVE skip_space(_, _)
skip_space(text, i) ==
  IF i >= 0 /\ IsSpace(text[i + 1]) THEN skip_space(text, i - 1) ELSE i

\* the sign check without the walk over whitespace
negated_adjacent_only(text, start_pos) ==
  start_pos > 0 /\ text[start_pos] = "-"

\* repl's first check: a minus sign before the token, spaces allowed between
negated(text, start_pos) ==
  /\ start_pos > 0
  /\ LET i == skip_space(text, start_pos - 1)
     IN  i >= 0 /\ text[i + 1] = "-"

\* repl's second check
leading_zero(s) == Len(s) > 1 /\ s[1] = "0"

\* the range check with its upper end off by one
in_range_to_1001(k) == 0 <= k /\ k <= MaxNumber + 1

\* repl's third check
in_range(k) == 0 <= k /\ k <= MaxNumber

\* repl returning str(int(s)) for a token with leading zeros
repl_strip_zeros(text, m, p, f) ==
  LET s == Slice(text, m.start, m.end)
      kept == [err |-> "none", ret |-> s, conv |-> FALSE, arg |-> 0]
  IN  IF negated(text, m.start) THEN kept
      ELSE IF leading_zero(s) THEN [kept EXCEPT !.ret = str_of(int_of(s))]
      ELSE IF in_range(int_of(s)) THEN
        LET r == convert_fn(p, f, int_of(s))
        IN  [err |-> r.err, ret |-> r.val, conv |-> TRUE, arg |-> int_of(s)]
      ELSE kept

\* repl(match): what it returns, and whether and with what it called convert_fn
\* (int(s) on a \d+ run raises only past Python's 4300-digit limit, and repl
\* then returns s, as the range check does for any such value)
repl(text, m, p, f) ==
  LET s == Slice(text, m.start, m.end)
      kept == [err |-> "none", ret |-> s, conv |-> FALSE, arg |-> 0]
  IN  IF negated(text, m.start) THEN kept
      ELSE IF leading_zero(s) THEN kept
      ELSE IF in_range(int_of(s)) THEN
        LET r == convert_fn(p, f, int_of(s))
        IN  [err |-> r.err, ret |-> r.val, conv |-> TRUE, arg |-> int_of(s)]
      ELSE kept

\* re.sub from offset p to the end of text, as a function of its arguments
RECURSIVE sub_from(_, _, _, _)
sub_from(text, p, cp, f) ==
  LET m == search(text, p)
  IN  IF ~m.found THEN Slice(text, p, Len(text))
      ELSE Slice(text, p, m.start) \o repl(text, m, cp, f).ret
             \o sub_from(text, m.end, cp, f)

replace_numbers_in_text(text, cp, f) == sub_from(text, 0, cp, f)

-----------------------------------------------------------------------------
(* normalize_text, stepwise *)

RECURSIVE TextsOfLen(_)
TextsOfLen(k) ==
  IF k = 0 THEN {<<>>}
  ELSE {Append(t, c) : t \in TextsOfLen(k - 1), c \in Alphabet}

Texts == UNION {TextsOfLen(k) : k \in 0..MaxLen}

Init ==
  /\ sentence \in Texts
  /\ pc = "call"
  /\ path = "none"
  /\ fst = "none"
  /\ pos = 0
  /\ out = <<>>
  /\ subs = <<>>
  /\ n = 0
  /\ cres = Ok(<<>>)

\* load_fst_and_normalize returns None (it keeps no record of why), and
\* normalize_text starts re.sub with number_to_words as convert_fn
Fallback ==
  /\ pc = "call"
  /\ path' = "py"
  /\ pc' = "sub"
  /\ UNCHANGED <<sentence, fst, pos, out, subs, n, cres>>

\* import pynini fails
ImportFails == Fallback

\* grammar.far does not exist
FarMissing == Fallback

\* pynini.Far(far_path) raises: caught by the outer except
FarUnreadable == Fallback

\* no entry named normalize, and no entry at all
FarEmpty == Fallback

\* an entry is found and re.sub starts with the transducer as convert_fn
Accelerated(f) ==
  /\ pc = "call"
  /\ fst' = f
  /\ path' = "fst"
  /\ pc' = "sub"
  /\ UNCHANGED <<sentence, pos, out, subs, n, cres>>

\* far["normalize"]
FarNormalize == \E f \in {"union", "full"} : Accelerated(f)

\* far[keys[0]]: an archive some other tool wrote, taken to hold a whole grammar
FarFirstKey == Accelerated("full")

\* one round of re.sub: the next match is found, repl is called on it, and
\* the text before it and repl's return value are appended to the output
SubMatch ==
  /\ pc = "sub"
  /\ \E m \in {search(sentence, pos)} :
       \E r \in {repl(sentence, m, path, fst)} :
         LET rec == [start |-> m.start, end |-> m.end, ret |-> r.ret,
                     conv |-> r.conv, arg |-> r.arg,
                     at |-> Len(out) + (m.start - pos)]
         IN  /\ m.found
             /\ IF r.err = "none"
                THEN /\ out' = out \o Slice(sentence, pos, m.start) \o r.ret
                     /\ pos' = m.end
                     /\ subs' = Append(subs, rec)
                     /\ UNCHANGED <<pc, path>>
                ELSE IF path = "fst"
                THEN \* the outer except of load_fst_and_normalize: None, and
                     \* normalize_text starts over with number_to_words
                     /\ out' = <<>>
                     /\ pos' = 0
                     /\ subs' = <<>>
                     /\ path' = "py"
                     /\ UNCHANGED pc
                ELSE \* nothing catches it: the exception leaves normalize_text
                     /\ pc' = "raised"
                     /\ subs' = Append(subs, rec)
                     /\ UNCHANGED <<out, pos, path>>
  /\ UNCHANGED <<sentence, fst, n, cres>>

\* re.sub finds no further match: the rest of the text is appended and the
\* result is returned through normalize_text
SubEnd ==
  /\ pc = "sub"
  /\ ~search(sentence, pos).found
  /\ out' = out \o Slice(sentence, pos, Len(sentence))
  /\ pos' = Len(sentence)
  /\ pc' = "done"
  /\ UNCHANGED <<sentence, path, fst, subs, n, cres>>

Next ==
  \/ ImportFails
  \/ FarMissing
  \/ FarUnreadable
  \/ FarEmpty
  \/ FarNormalize
  \/ FarFirstKey
  \/ SubMatch
  \/ SubEnd

Spec == Init /\ [][Next]_vars

-----------------------------------------------------------------------------
(* number_to_words, called directly *)

InitConv ==
  /\ n \in (0 - ArgSlack)..(MaxNumber + ArgSlack)
  /\ pc = "conv_call"
  /\ cres = Ok(<<>>)
  /\ sentence = <<>>
  /\ path = "none"
  /\ fst = "none"
  /\ pos = 0
  /\ out = <<>>
  /\ subs = <<>>

CallNumberToWords ==
  /\ pc = "conv_call"
  /\ cres' = number_to_words(n)
  /\ pc' = "conv_ret"
  /\ UNCHANGED <<sentence, path, fst, pos, out, subs, n>>

NextConv == CallNumberToWords

SpecConv == InitConv /\ [][NextConv]_vars

-----------------------------------------------------------------------------
(* The word form of section 4.1 *)

unit_name(d) == units[d + 1]
teens_name(k) == teens[(k - 10) + 1]
tens_name(t) == tens[t + 1]

RECURSIVE RefWords(_)
RefWords(k) ==
  CASE k = 1000 -> <<"o", "n", "e", " ", "t", "h", "o", "u", "s", "a", "n", "d">>
    [] k = 0 -> <<"z", "e", "r", "o">>
    [] k \in 1..9 -> unit_name(k)
    [] k \in 10..19 -> teens_name(k)
    [] k \in 20..99 /\ k % 10 = 0 -> tens_name(k \div 10)
    [] k \in 20..99 /\ k % 10 # 0 ->
         tens_name(k \div 10) \o <<"-">> \o unit_name(k % 10)
    [] k \in 100..999 /\ k % 100 = 0 ->
         unit_name(k \div 100) \o <<" ", "h", "u", "n", "d", "r", "e", "d">>
    [] k \in 100..999 /\ k % 100 # 0 ->
         unit_name(k \div 100) \o <<" ", "h", "u", "n", "d", "r", "e", "d", " ">>
           \o RefWords(k % 100)

\* the expected outputs the tests spell out
TestWords ==
  << [k |-> 0, w |-> <<"z", "e", "r", "o">>],
     [k |-> 3, w |-> <<"t", "h", "r", "e", "e">>],
     [k |-> 15, w |-> <<"f", "i", "f", "t", "e", "e", "n">>],
     [k |-> 90, w |-> <<"n", "i", "n", "e", "t", "y">>],
     [k |-> 21, w |-> <<"t", "w", "e", "n", "t", "y", "-", "o", "n", "e">>],
     [k |-> 101, w |-> <<"o", "n", "e", " ", "h", "u", "n", "d", "r", "e", "d", " ", "o", "n", "e">>],
     [k |-> 110, w |-> <<"o", "n", "e", " ", "h", "u", "n", "d", "r", "e", "d", " ", "t", "e", "n">>],
     [k |-> 245, w |-> <<"t", "w", "o", " ", "h", "u", "n", "d", "r", "e", "d", " ",
                         "f", "o", "r", "t", "y", "-", "f", "i", "v", "e">>],
     [k |-> 999, w |-> <<"n", "i", "n", "e", " ", "h", "u", "n", "d", "r", "e", "d", " ",
                         "n", "i", "n", "e", "t", "y", "-", "n", "i", "n", "e">>],
     [k |-> 1000, w |-> <<"o", "n", "e", " ", "t", "h", "o", "u", "s", "a", "n", "d">>] >>

\* C1: for every n in 0..1000, number_to_words(n) returns the word form of
\* section 4.1 (and, for the numbers the tests name, the string they expect)
C1_WordForm ==
  (pc = "conv_ret" /\ 0 <= n /\ n <= 1000) =>
    /\ cres = Ok(RefWords(n))
    /\ \A i \in 1..Len(TestWords) : TestWords[i].k = n => cres.val = TestWords[i].w

C1_Witness ==
  /\ pc = "conv_ret"
  /\ n = 245
  /\ cres.val = TestWords[8].w

\* C8: number_to_words raises ValueError, and yields no word form, for every
\* n < 0 and every n > 1000, and returns a non-empty string for n in 0..1000
C8_DomainError ==
  pc = "conv_ret" =>
    IF n < 0 \/ n > 1000
    THEN cres = Raise("ValueError")
    ELSE cres.err = "none" /\ cres.val # <<>>

C8_Witness ==
  /\ pc = "conv_ret"
  /\ n = 0 - 1
  /\ cres.err = "ValueError"

-----------------------------------------------------------------------------
(* Numeral tokens and eligibility, as the specification states them *)

TokenText(text, r) == Slice(text, r.start, r.end)

\* the spans <<a, b>> of the maximal digit runs of text
DigitRuns(text) ==
  {sp \in (0..Len(text)) \X (0..Len(text)) :
     /\ sp[1] < sp[2]
     /\ \A k \in (sp[1] + 1)..sp[2] : IsDigit(text[k])
     /\ sp[1] = 0 \/ ~IsDigit(text[sp[1]])
     /\ sp[2] = Len(text) \/ ~IsDigit(text[sp[2] + 1])}

\* a run with a letter or an underscore right before or right after it
Attached(text, sp) ==
  \/ sp[1] > 0 /\ IsWord(text[sp[1]])
  \/ sp[2] < Len(text) /\ IsWord(text[sp[2] + 1])

\* the numeral tokens: the maximal digit runs bounded by word boundaries
Tokens(text) == {sp \in DigitRuns(text) : ~Attached(text, sp)}

\* the nearest non-whitespace character before offset a is a minus sign
MinusBefore(text, a) ==
  \E j \in 1..a : text[j] = "-" /\ \A k \in (j + 1)..a : IsSpace(text[k])

Eligible(text, sp) ==
  /\ ~MinusBefore(text, sp[1])
  /\ ~(sp[2] - sp[1] > 1 /\ text[sp[1] + 1] = "0")
  /\ int_of(Slice(text, sp[1], sp[2])) \in 0..1000

Spans == {<<subs[i].start, subs[i].end>> : i \in 1..Len(subs)}

\* text with the spans of recs (in offset order) replaced by what repl returned
RECURSIVE SpliceFrom(_, _, _, _)
SpliceFrom(text, recs, i, from) ==
  IF i > Len(recs) THEN Slice(text, from, Len(text))
  ELSE Slice(text, from, recs[i].start) \o recs[i].ret
         \o SpliceFrom(text, recs, i + 1, recs[i].end)

Splice(text, recs) == SpliceFrom(text, recs, 1, 0)

\* C2: a numeral token is replaced by convert_fn(value) exactly when no minus
\* sign precedes it (whitespace skipped), it is not a multi-character token
\* starting with "0", and its value is in 0..1000; any other token is output
\* verbatim; and every token of the text gets its verdict
C2_Eligibility ==
  /\ \A i \in 1..Len(subs) :
       LET r == subs[i]
           s == TokenText(sentence, r)
       IN  /\ <<r.start, r.end>> \in Tokens(sentence)
           /\ IF Eligible(sentence, <<r.start, r.end>>)
              THEN /\ r.conv
                   /\ r.arg = int_of(s)
                   /\ r.ret = convert_fn(path, fst, int_of(s)).val
              ELSE ~r.conv /\ r.ret = s
           /\ pc # "raised" => Slice(out, r.at, r.at + Len(r.ret)) = r.ret
  /\ pc = "done" =>
       /\ Tokens(sentence) \subseteq Spans
       /\ sentence = <<"-", "1">> => out = sentence
       /\ sentence = <<"-", " ", "1">> => out = sentence
       /\ sentence = <<"0", "1", "2">> => out = sentence
       /\ sentence = <<"1", "0", "0", "1">> => out = sentence
       /\ sentence = <<"0">> => out = <<"z", "e", "r", "o">>

C2_Witness ==
  /\ pc = "done"
  /\ \E i, j \in 1..Len(subs) :
       /\ subs[i].conv
       /\ ~subs[j].conv
       /\ MinusBefore(sentence, subs[j].start)
       /\ sentence[subs[j].start] = " "

\* C3: the output is the input with each converted token replaced in place by
\* its word form: whatever repl changed is an eligible token that became the
\* word form of its value, and every other character of the input is in the
\* output, unchanged and in order (so a text without an eligible token is
\* returned as it is)
C3_SpanPreserving ==
  pc = "done" =>
    LET Changed(r) == r.ret # TokenText(sentence, r)
        changed == SelectSeq(subs, Changed)
    IN  /\ out = Splice(sentence, changed)
        /\ \A i \in 1..Len(changed) :
             /\ Eligible(sentence, <<changed[i].start, changed[i].end>>)
             /\ changed[i].ret = RefWords(int_of(TokenText(sentence, changed[i])))
        /\ (\A sp \in Tokens(sentence) : ~Eligible(sentence, sp)) => out = sentence

\* C3 on the rule-based path alone
C3_FallbackSpanPreserving == path = "py" => C3_SpanPreserving

\* C4: whenever the accelerated path produced the result, it is the string
\* the rule-based fallback returns for the same text
C4_Indistinguishable ==
  (pc = "done" /\ path = "fst") =>
    out = replace_numbers_in_text(sentence, "py", "none")

\* C5: normalising the output of normalize_text again changes nothing
C5_Idempotent ==
  pc = "done" => replace_numbers_in_text(out, path, fst) = out

C5_Witness ==
  /\ pc = "done"
  /\ out # sentence
  /\ \E i, j \in 1..Len(subs) :
       /\ subs[i].conv
       /\ \E k \in 1..Len(subs[i].ret) : subs[i].ret[k] = "-"
       /\ ~subs[j].conv
  /\ \E k \in 1..Len(out) : IsDigit(out[k])

\* C6: a digit run with a letter, digit or underscore right before or after
\* it is never handed to repl and is output verbatim, while the same digits
\* set apart by a space are converted
C6_EmbeddedDigits ==
  /\ \A sp \in DigitRuns(sentence) :
       Attached(sentence, sp) =>
         \A i \in 1..Len(subs) : subs[i].end <= sp[1] \/ sp[2] <= subs[i].start
  /\ \A i \in 1..Len(subs) :
       /\ subs[i].start = 0 \/ ~IsWord(sentence[subs[i].start])
       /\ subs[i].end = Len(sentence) \/ ~IsWord(sentence[subs[i].end + 1])
  /\ pc = "done" =>
       /\ sentence = <<"a", "0", "a">> => out = sentence
       /\ sentence = <<"0", "a">> => out = sentence
       /\ sentence = <<"a", "0">> => out = sentence
       /\ sentence = <<"_", "0">> => out = sentence
       /\ sentence = <<"0", " ", "a">> => out = <<"z", "e", "r", "o", " ", "a">>
       /\ sentence = <<"a", " ", "0">> => out = <<"a", " ", "z", "e", "r", "o">>

C6_Witness ==
  /\ pc = "done"
  /\ subs # <<>>
  /\ subs[1].conv
  /\ \E sp \in DigitRuns(sentence) : Attached(sentence, sp)

\* C7: normalize_text never raises and returns a string, whether or not the
\* accelerated path gave up; convert_fn is only ever called with an integer
\* in 0..1000, so number_to_words never raises its ValueError
C7_Total ==
  /\ pc # "raised"
  /\ \A i \in 1..Len(subs) : subs[i].conv => subs[i].arg \in 0..1000
  /\ pc = "sub" => pos <= Len(sentence)
  /\ pc = "done" => \A k \in 1..Len(out) : out[k] \in STRING

C7_Witness ==
  /\ pc = "done"
  /\ path = "py"
  /\ \E i \in 1..Len(subs) : subs[i].conv /\ subs[i].arg = 1000

\* C9: a digit run holding a non-ASCII decimal digit is not a numeral token:
\* it is never converted and passes through unchanged
C9_AsciiOnly ==
  \A i \in 1..Len(subs) :
    (\E k \in (subs[i].start + 1)..subs[i].end : ~IsAsciiDigit(sentence[k])) =>
      ~subs[i].conv /\ subs[i].ret = TokenText(sentence, subs[i])

\* C10: re.sub visits the tokens of the original text once each, in offset
\* order, never a piece of replacement text (also when convert_fn returns
\* digits), and a token's minus-sign look-back reads the original text
C10_SinglePass ==
  /\ \A i \in 1..Len(subs) :
       /\ <<subs[i].start, subs[i].end>> \in Tokens(sentence)
       /\ MinusBefore(sentence, subs[i].start) => ~subs[i].conv
       /\ i < Len(subs) => subs[i].end < subs[i + 1].start
  /\ Len(subs) = Cardinality(Spans)
  /\ pc = "sub" /\ subs # <<>> => pos = subs[Len(subs)].end
  /\ pc = "sub" => \A sp \in Tokens(sentence) : sp \in Spans \/ pos <= sp[1]
  /\ pc = "done" => Spans = Tokens(sentence)

\* two tokens with only a minus sign between them: the first is converted,
\* the second is kept because of the sign the original text has before it
C10_Witness ==
  /\ pc = "done"
  /\ Len(subs) = 2
  /\ subs[1].conv
  /\ ~subs[2].conv
  /\ subs[2].start = subs[1].end + 1

====
